---- MODULE Spec2Model ----
(***************************************************************************)
(* A model of services/financeEngine.ts: the data acquisition of           *)
(* runSimulation (fetchTickerData, getHistory, the benchmark fetch) as a   *)
(* state machine over promises, and the synchronous part (statistics,      *)
(* Monte-Carlo sampling loop, current portfolio, risk contributions) as a  *)
(* state machine over trials; the parameters generateMockHistory derives   *)
(* for a ticker; and of App.tsx: handleOptimize with its callers, as a     *)
(* state machine over the runSimulation calls in flight.                   *)
(*                                                                         *)
(* Strings are sequences of one-character strings, except that the error   *)
(* prefix "INVALID_TICKER" is one element and "INVALID_TICKERS_FOUND" is   *)
(* that element followed by "S_FOUND", so that startsWith keeps its        *)
(* meaning (the second starts with the first).                             *)
(***************************************************************************)
EXTENDS Integers, Sequences, FiniteSets, TLC

VARIABLES
  tickers,       \* runSimulation: userAssets.map(a => a.ticker)
  range,         \* runSimulation: the TimeRange argument
  pc,            \* where runSimulation stands
  promises,      \* getHistory: the promises handed to Promise.all, one per ticker
  fetchLog,      \* per ticker, what its fetchTickerData call did (history variable)
  firstSettled,  \* index of the ticker fetch that settled first, 0 if none (history variable)
  answers,       \* per ticker, the chart data its fetch was answered with (history variable)
  histPromise,   \* the promise returned by getHistory
  historyData,   \* runSimulation: historyData
  bench,         \* the promise of fetchTickerData('^GSPC', range)
  result,        \* what the promise returned by runSimulation settled with
  history,            \* runSimulation: the returns matrix handed to the statistics
  annualizedReturns,  \* runSimulation: annualizedReturns
  covMatrix,          \* runSimulation: covMatrix
  trial,              \* runSimulation: p, the number of trials made
  frontier,           \* runSimulation: frontier
  minVarP,            \* runSimulation: minVarP
  maxSharpeP,         \* runSimulation: maxSharpeP
  spc,                \* where the synchronous part of runSimulation stands
  userWeights,        \* runSimulation: userAssets.map(a => a.weight)
  corMatrix,          \* runSimulation: corMatrix
  currentStats,       \* runSimulation: currentStats
  riskContribution,   \* runSimulation: riskContribution
  assets,        \* App: assets
  timeRange,     \* App: timeRange
  loading,       \* App: loading
  appError,      \* App: error, as the kind of message shown ("none" for null)
  appResult,     \* App: result (Null, or what a runSimulation call resolved with)
  calls,         \* App: the runSimulation calls made by handleOptimize, in start order
  mockTicker,    \* generateMockHistory: ticker
  mockDraws,     \* generateMockHistory: what the two Math.random() calls for the ticker yield
  mockParams     \* generateMockHistory: seed, volatility, beta and alpha of the ticker

fetchVars == <<tickers, range, pc, promises, fetchLog, firstSettled, answers,
               histPromise, historyData, bench, result>>

sampleVars == <<history, annualizedReturns, covMatrix, trial, frontier, minVarP,
                maxSharpeP, spc, userWeights, corMatrix, currentStats,
                riskContribution>>

appVars == <<assets, timeRange, loading, appError, appResult, calls>>

mockVars == <<mockTicker, mockDraws, mockParams>>

vars == <<fetchVars, sampleVars, appVars, mockVars>>

-----------------------------------------------------------------------------
(* Bounds of the model *)

MaxTickers == 2
MaxTrials == 2     \* stands for numPortfolios, 15000 in the code
RandLevels == 2    \* Math.random() yields one of 0, 1/RandLevels, ..., (RandLevels-1)/RandLevels

(* Program constants *)

MinTimestamps == 10
MinCommonDates == 50
BenchMinPrices == 10
TradingDays == 252

-----------------------------------------------------------------------------
(* String helpers: what the JavaScript string methods used by the code do *)

IndexOf(s, c) ==
  IF \E i \in 1..Len(s) : s[i] = c
  THEN CHOOSE i \in 1..Len(s) : s[i] = c /\ \A j \in 1..(i-1) : s[j] # c
  ELSE 0

RECURSIVE Split(_, _)
Split(s, c) ==
  LET i == IndexOf(s, c)
  IN IF i = 0 THEN <<s>>
     ELSE <<SubSeq(s, 1, i-1)>> \o Split(SubSeq(s, i+1, Len(s)), c)

RECURSIVE TrimStart(_)
TrimStart(s) ==
  IF s # <<>> /\ Head(s) = " " THEN TrimStart(Tail(s)) ELSE s

RECURSIVE TrimEnd(_)
TrimEnd(s) ==
  IF s # <<>> /\ s[Len(s)] = " " THEN TrimEnd(SubSeq(s, 1, Len(s)-1)) ELSE s

Trim(s) == TrimEnd(TrimStart(s))

StartsWith(s, p) == Len(s) >= Len(p) /\ SubSeq(s, 1, Len(p)) = p

RECURSIVE Join(_, _)
Join(list, sep) ==
  IF list = <<>> THEN <<>>
  ELSE IF Len(list) = 1 THEN list[1]
  ELSE list[1] \o sep \o Join(Tail(list), sep)

\* [...new Set(list)]: the distinct elements in order of first occurrence
RECURSIVE Unique(_)
Unique(list) ==
  IF list = <<>> THEN <<>>
  ELSE LET init == Unique(SubSeq(list, 1, Len(list)-1))
           last == list[Len(list)]
       IN IF \E i \in 1..Len(init) : init[i] = last THEN init ELSE Append(init, last)

INVALID_TICKER == <<"INVALID_TICKER">>
INVALID_TICKERS_FOUND == <<"INVALID_TICKER", "S_FOUND">>
NETWORK_ERROR == <<"NETWORK_ERROR">>
TYPE_ERROR == <<"TypeError">>

-----------------------------------------------------------------------------
(* Numbers.  A JavaScript number is modelled exactly: a rational n/d in   *)
(* lowest terms with d > 0, or NaN, +Infinity, -Infinity (rounding and    *)
(* the sign of zero are not modelled).                                    *)

RECURSIVE GCD(_, _)
GCD(a, b) == IF b = 0 THEN a ELSE GCD(b, a % b)

Abs(x) == IF x < 0 THEN -x ELSE x

Fin(n, d) ==
  LET s == IF d < 0 THEN -1 ELSE 1
      g == GCD(Abs(n), Abs(d))
  IN [k |-> "fin", n |-> (s * n) \div g, d |-> (s * d) \div g]

NaN == [k |-> "nan", n |-> 0, d |-> 0]
PosInf == [k |-> "inf", n |-> 1, d |-> 0]
NegInf == [k |-> "inf", n |-> -1, d |-> 0]
Zero == [k |-> "fin", n |-> 0, d |-> 1]
Int2Num(i) == [k |-> "fin", n |-> i, d |-> 1]

Sign(a) == IF a.n > 0 THEN 1 ELSE IF a.n < 0 THEN -1 ELSE 0

NumNeg(a) == IF a.k = "nan" THEN NaN ELSE [a EXCEPT !.n = -a.n]

NumAdd(a, b) ==
  IF a.k = "nan" \/ b.k = "nan" THEN NaN
  ELSE IF a.k = "inf" /\ b.k = "inf" THEN (IF a.n = b.n THEN a ELSE NaN)
  ELSE IF a.k = "inf" THEN a
  ELSE IF b.k = "inf" THEN b
  ELSE LET g == GCD(a.d, b.d)
       IN Fin(a.n * (b.d \div g) + b.n * (a.d \div g), (a.d \div g) * b.d)

NumSub(a, b) == NumAdd(a, NumNeg(b))

NumMul(a, b) ==
  IF a.k = "nan" \/ b.k = "nan" THEN NaN
  ELSE IF a.k = "inf" \/ b.k = "inf"
       THEN (IF Sign(a) * Sign(b) = 0 THEN NaN
             ELSE IF Sign(a) * Sign(b) > 0 THEN PosInf ELSE NegInf)
  ELSE LET g1 == GCD(Abs(a.n), b.d)
           g2 == GCD(Abs(b.n), a.d)
       IN Fin((a.n \div g1) * (b.n \div g2), (a.d \div g2) * (b.d \div g1))

NumDiv(a, b) ==
  IF a.k = "nan" \/ b.k = "nan" THEN NaN
  ELSE IF a.k = "inf" /\ b.k = "inf" THEN NaN
  ELSE IF a.k = "inf" THEN (IF Sign(b) < 0 THEN NumNeg(a) ELSE a)
  ELSE IF b.k = "inf" THEN Zero
  ELSE IF b.n = 0
       THEN (IF a.n = 0 THEN NaN ELSE IF a.n > 0 THEN PosInf ELSE NegInf)
  ELSE NumMul(a, Fin(b.d, b.n))

\* a < b as JavaScript compares numbers: false when either is NaN
NumLt(a, b) ==
  IF a.k = "nan" \/ b.k = "nan" THEN FALSE
  ELSE IF a.k = "inf" THEN a.n < 0 /\ ~(b.k = "inf" /\ b.n < 0)
  ELSE IF b.k = "inf" THEN b.n > 0
  ELSE a.n * b.d < b.n * a.d

NumGt(a, b) == NumLt(b, a)
NumEq(a, b) == a.k # "nan" /\ b.k # "nan" /\ a = b
NumLe(a, b) == NumLt(a, b) \/ NumEq(a, b)
NumGe(a, b) == NumLe(b, a)

RECURSIVE NumSum(_)
NumSum(xs) == IF xs = <<>> THEN Zero ELSE NumAdd(NumSum(SubSeq(xs, 1, Len(xs)-1)), xs[Len(xs)])

\* s * sqrt(q) for a sign s and a rational q >= 0: the values Math.sqrt and a division
\* by a square root yield
Surd(s, q) ==
  IF s = 0 \/ q.n = 0 THEN [k |-> "surd", s |-> 0, q |-> Zero]
  ELSE [k |-> "surd", s |-> s, q |-> q]

\* Math.sqrt(a)
Sqrt(a) ==
  IF a.k = "nan" THEN NaN
  ELSE IF a.k = "inf" THEN (IF a.n > 0 THEN PosInf ELSE NaN)
  ELSE IF a.n < 0 THEN NaN
  ELSE Surd(1, a)

\* a / b for a number a and a square root b
DivBySurd(a, b) ==
  IF a.k = "nan" \/ b.k = "nan" THEN NaN
  ELSE IF b.k = "inf" THEN (IF a.k = "inf" THEN NaN ELSE Surd(0, Zero))
  ELSE IF b.s = 0
       THEN (IF Sign(a) = 0 THEN NaN ELSE IF Sign(a) > 0 THEN PosInf ELSE NegInf)
  ELSE IF a.k = "inf" THEN (IF b.s > 0 THEN a ELSE NumNeg(a))
  ELSE Surd(Sign(a) * b.s, NumDiv(NumMul(a, a), b.q))

\* a < b for two values that are square roots, quotients by them, or not finite
SurdLt(a, b) ==
  IF a.k = "nan" \/ b.k = "nan" THEN FALSE
  ELSE IF a.k = "inf" THEN a.n < 0 /\ ~(b.k = "inf" /\ b.n < 0)
  ELSE IF b.k = "inf" THEN b.n > 0
  ELSE IF a.s # b.s THEN a.s < b.s
  ELSE IF a.s > 0 THEN NumLt(a.q, b.q)
  ELSE IF a.s < 0 THEN NumLt(b.q, a.q)
  ELSE FALSE

SurdGt(a, b) == SurdLt(b, a)
SurdEq(a, b) == a.k # "nan" /\ b.k # "nan" /\ a = b
SurdLe(a, b) == SurdLt(a, b) \/ SurdEq(a, b)
SurdGe(a, b) == SurdLe(b, a)

\* f * r for a rational f > 0 and a square root r, kept as the product
Scaled(f, r) ==
  IF r.k \in {"nan", "inf"} THEN r
  ELSE IF r.s = 0 THEN r
  ELSE [k |-> "scaled", f |-> f, r |-> r]

\* an integer as a value comparable with square roots
SurdOfInt(i) == Surd(IF i > 0 THEN 1 ELSE IF i < 0 THEN -1 ELSE 0, Int2Num(i * i))

\* b === 0 for the value of a Math.sqrt
SurdIsZero(b) == b.k = "surd" /\ b.s = 0

\* a / (b * c) for a number a and two square roots b, c; where all are finite and
\* b * c is not 0, that is sign(a) * sqrt((a / b^2) * (a / c^2))
DivBySurdProduct(a, b, c) ==
  IF a.k = "nan" \/ b.k = "nan" \/ c.k = "nan" THEN NaN
  ELSE IF (b.k = "inf" /\ SurdIsZero(c)) \/ (c.k = "inf" /\ SurdIsZero(b)) THEN NaN
  ELSE IF b.k = "inf" \/ c.k = "inf" THEN (IF a.k = "inf" THEN NaN ELSE SurdOfInt(0))
  ELSE IF SurdIsZero(b) \/ SurdIsZero(c)
       THEN (IF Sign(a) = 0 THEN NaN ELSE IF Sign(a) > 0 THEN PosInf ELSE NegInf)
  ELSE IF a.k = "inf" THEN a
  ELSE Surd(Sign(a), NumMul(NumDiv(a, b.q), NumDiv(a, c.q)))

\* (a / b) / b for a number a and a square root b > 0: a / b^2
DivBySurdTwice(a, b) ==
  IF a.k = "nan" \/ b.k = "nan" THEN NaN
  ELSE IF b.k = "inf" THEN (IF a.k = "inf" THEN NaN ELSE Zero)
  ELSE NumDiv(a, b.q)


-----------------------------------------------------------------------------
(* Values and promises *)

Null == [type |-> "null"]
ErrorValue(m) == [type |-> "error", message |-> m]
DataValue(ds, ps, m) == [type |-> "data", dates |-> ds, prices |-> ps, meta |-> m]

Pending == [state |-> "pending", value |-> Null]
Fulfilled(v) == [state |-> "fulfilled", value |-> v]
Rejected(e) == [state |-> "rejected", value |-> e]

Return(v) == [threw |-> FALSE, message |-> <<>>, value |-> v]
Throw(m) == [threw |-> TRUE, message |-> m, value |-> Null]

-----------------------------------------------------------------------------
(* The inputs: tickers, time ranges and what the quote service answers *)

TickerUniverse ==
  { <<"A", "B">>, <<"A", ":", "B">>, <<"A", "(", "B">>, <<" ", "B">> }

GSPC == <<"^", "G", "S", "P", "C">>

TimeRanges == {"1y", "2y", "5y"}

RANGE_DAYS_MAP == ("1y" :> 252) @@ ("2y" :> 504) @@ ("5y" :> 1260)

SymbolNotFound ==
  <<"S", "y", "m", "b", "o", "l", " ", "n", "o", "t", " ", "f", "o", "u", "n", "d">>

\* the UNIX time (seconds) of a quote on trading day `day`, and the close of that day
Stamp(day) == day * 86400 + 52200
PriceOn(day) == 100 + day

\* a chart answer with one quote per day lo..hi; the close of nullDay is null
\* (a close is <<p>>, null is <<>>)
ChartResponse(lo, hi, nullDay) ==
  [kind |-> "chart", description |-> <<>>,
   timestamps |-> [i \in 1..(hi - lo + 1) |-> Stamp(lo + i - 1)],
   closes |-> [i \in 1..(hi - lo + 1) |->
                 IF lo + i - 1 = nullDay THEN <<>> ELSE <<PriceOn(lo + i - 1)>>],
   meta |-> [present |-> TRUE, longName |-> <<>>, shortName |-> <<"n">>]]

\* a chart answer with one quote per day lo..hi, all closes present, the close of
\* `day` being `close`
ChartResponseWithClose(lo, hi, day, close) ==
  [ChartResponse(lo, hi, 0) EXCEPT !.closes[day - lo + 1] = <<close>>]

\* closes that are not positive
WorthlessClose == 0
NegativeClose == -5

FailResponse(kind, description) ==
  [kind |-> kind, description |-> description, timestamps |-> <<>>, closes |-> <<>>,
   meta |-> [present |-> FALSE, longName |-> <<>>, shortName |-> <<>>]]

\* chart.error set; chart.result null (or an empty array); HTTP failure without JSON
FailResponses ==
  { FailResponse("chartError", <<"N", "o", " ", "d", "a", "t", "a">>),
    FailResponse("resultNull", <<>>),
    FailResponse("httpFail", <<>>) }

TickerResponses ==
  FailResponses \cup
  { ChartResponse(1, MinTimestamps - 1, 0),
    ChartResponse(1, MinCommonDates, MinCommonDates),
    ChartResponse(1, MinCommonDates, 0),
    ChartResponse(2, MinCommonDates + 1, 0) }

\* answers with enough quotes that differ in their dates and closes: rising closes, a
\* day more, a jump, and a close that is not positive on the second, the first and
\* the last day
PriceResponses ==
  { ChartResponse(1, MinCommonDates, 0),
    ChartResponse(1, MinCommonDates + 1, 0),
    ChartResponseWithClose(1, MinCommonDates, 3, 250),
    ChartResponseWithClose(1, MinCommonDates, 2, WorthlessClose),
    ChartResponseWithClose(1, MinCommonDates, 1, NegativeClose),
    ChartResponseWithClose(1, MinCommonDates, MinCommonDates, WorthlessClose) }

BenchResponses ==
  FailResponses \cup
  { ChartResponse(1, MinTimestamps - 1, 0),
    ChartResponse(1, BenchMinPrices, 0),
    ChartResponse(1, BenchMinPrices + 1, BenchMinPrices + 1),
    ChartResponse(1, BenchMinPrices + 1, 0) }

\* what a response is, seen from outside the code: the symbol does not resolve,
\* a series that can be used, or anything else (a transient failure)
RespClass(resp) ==
  IF resp.kind \in {"chartError", "resultNull"} THEN "symbolNotFound"
  ELSE IF resp.kind = "chart" /\ Len(resp.timestamps) >= MinTimestamps THEN "ok"
  ELSE "transient"

-----------------------------------------------------------------------------
(* fetchTickerData *)

\* new Date(ts * 1000).toISOString().split('T')[0]: the UTC day of the quote
DateOf(ts) == ts \div 86400

InvalidTickerMessage(ticker, errorMsg) ==
  INVALID_TICKER \o <<":", " ">> \o ticker \o <<" ", "(">> \o errorMsg \o <<")">>

\* the indices of the quotes whose close is not null
CleanIndices(closes) == SelectSeq([i \in 1..Len(closes) |-> i], LAMBDA i : closes[i] # <<>>)

\* the try block of fetchTickerData
FetchTry(ticker, resp) ==
  IF resp.kind \in {"chartError", "resultNull"}
  THEN Throw(InvalidTickerMessage(ticker,
               IF resp.description # <<>> THEN resp.description ELSE SymbolNotFound))
  ELSE IF resp.kind = "httpFail" THEN Throw(NETWORK_ERROR)
  ELSE IF Len(resp.timestamps) < MinTimestamps THEN Return(Null)
  ELSE LET keep == CleanIndices(resp.closes)
       IN Return(DataValue([k \in 1..Len(keep) |-> DateOf(resp.timestamps[keep[k]])],
                           [k \in 1..Len(keep) |-> resp.closes[keep[k]][1]],
                           resp.meta))

\* fetchTickerData: the promise it returns, settled
FetchTickerData(ticker, resp) ==
  LET r == FetchTry(ticker, resp)
  IN IF r.threw
     THEN (IF StartsWith(r.message, INVALID_TICKER)
           THEN Rejected(ErrorValue(r.message))
           ELSE Fulfilled(Null))
     ELSE Fulfilled(r.value)

-----------------------------------------------------------------------------
(* getHistory *)

\* a row of a returns matrix.  A synthetic row holds `len` random numbers, which
\* are not modelled; `source` and `ticker` record where the row comes from.
MockRow(ticker, days) == [source |-> "mock", ticker |-> ticker, len |-> days, rets |-> <<>>]
RealRow(ticker, rets) == [source |-> "real", ticker |-> ticker, len |-> Len(rets), rets |-> rets]

generateMockHistory(tks, rng) ==
  [i \in 1..Len(tks) |-> MockRow(tks[i], RANGE_DAYS_MAP[rng])]

\* a plausible slip: the fetches are handed to Promise.all unwrapped
WrapFetch_NoCatch(p) == p

\* tickers.map(async t => { try { return await fetchTickerData(t) } catch (e) { return e } })
WrapFetch(p) == IF p.state = "rejected" THEN Fulfilled(p.value) ELSE p

\* the state of Promise.all(ps)
PromiseAllState(ps) ==
  IF \E i \in 1..Len(ps) : ps[i].state = "rejected" THEN "rejected"
  ELSE IF \A i \in 1..Len(ps) : ps[i].state = "fulfilled" THEN "fulfilled"
  ELSE "pending"

\* a plausible slip: the prefix of the aggregated error is looked for
IsInvalidTickerError_WrongPrefix(r) ==
  r.type = "error" /\ r.message # <<>> /\ StartsWith(r.message, INVALID_TICKERS_FOUND)

IsInvalidTickerError(r) ==
  r.type = "error" /\ r.message # <<>> /\ StartsWith(r.message, INVALID_TICKER)

\* Parse "INVALID_TICKER: TICKER (Reason)"
ParseTickerName(message) ==
  LET parts == Split(message, ":")
  IN IF Len(parts) >= 2 /\ parts[2] # <<>>
     THEN Trim(Split(parts[2], "(")[1])
     ELSE <<"U", "n", "k", "n", "o", "w", "n">>

SetOfSeq(xs) == {xs[i] : i \in 1..Len(xs)}

RECURSIVE SortAscending(_)
SortAscending(S) ==
  IF S = {} THEN <<>>
  ELSE LET m == CHOOSE x \in S : \A y \in S : x <= y
       IN <<m>> \o SortAscending(S \ {m})

\* the intersection of the dates of all results
RECURSIVE CommonDates(_, _)
CommonDates(validResults, i) ==
  IF i = 1 THEN SetOfSeq(validResults[1].dates)
  ELSE {d \in CommonDates(validResults, i - 1) : d \in SetOfSeq(validResults[i].dates)}

\* priceMap.get(date): the price set last for the date
PriceMapGet(assetData, date) ==
  LET hits == {idx \in 1..Len(assetData.dates) : assetData.dates[idx] = date}
      last == CHOOSE idx \in hits : \A j \in hits : j <= idx
  IN assetData.prices[last]

\* the loop over sortedCommonDates, from position k with prevPrice
RECURSIVE AssetReturns(_, _, _, _)
AssetReturns(assetData, sorted, k, prevPrice) ==
  IF k > Len(sorted) THEN <<>>
  ELSE LET price == PriceMapGet(assetData, sorted[k])
       IN (IF prevPrice > 0 THEN <<Fin(price - prevPrice, prevPrice)>> ELSE <<>>)
          \o AssetReturns(assetData, sorted, k + 1, price)

HasMeta(assetData) == assetData.meta.present

AssetName(ticker, meta) ==
  IF meta.longName # <<>> THEN meta.longName
  ELSE IF meta.shortName # <<>> THEN meta.shortName
  ELSE ticker

NameMap(tks, validResults) ==
  [t \in {tks[i] : i \in {j \in 1..Len(tks) : HasMeta(validResults[j])}} |->
     LET last == CHOOSE i \in 1..Len(tks) :
                   /\ tks[i] = t /\ HasMeta(validResults[i])
                   /\ \A j \in 1..Len(tks) : (tks[j] = t /\ HasMeta(validResults[j])) => j <= i
     IN AssetName(t, validResults[last].meta)]

NoNames == [t \in {} |-> <<>>]

HistoryData(h, sim, nm) == [history |-> h, isSimulation |-> sim, names |-> nm]

\* the badTickers list built from the invalid-ticker errors, duplicates removed
UniqueBadTickers(results) ==
  LET invalidTickerErrors == SelectSeq(results, IsInvalidTickerError)
  IN Unique([i \in 1..Len(invalidTickerErrors) |->
               ParseTickerName(invalidTickerErrors[i].message)])

InvalidTickersFoundMessage(list) ==
  INVALID_TICKERS_FOUND \o <<":", " ">> \o Join(list, <<",", " ">>)

\* a plausible slip: sortedCommonDates.length <= 50
TooFewCommonDates_Inclusive(n) == n <= MinCommonDates

\* sortedCommonDates.length < 50
TooFewCommonDates(n) == n < MinCommonDates

\* a plausible slip: only the tickers whose fetch failed are generated synthetically
FallbackHistory_FailedOnly(tks, rng, results) ==
  [i \in 1..Len(tks) |->
     IF results[i].type = "data"
     THEN RealRow(tks[i], AssetReturns(results[i],
                                       SortAscending(SetOfSeq(results[i].dates)), 1, -1))
     ELSE MockRow(tks[i], RANGE_DAYS_MAP[rng])]

\* the history of the fallback taken when a result is null or an Error
FallbackHistory(tks, rng, results) == generateMockHistory(tks, rng)

\* getHistory after `await Promise.all(...)`: what it returns or throws
GetHistoryBody(tks, rng, results) ==
  IF \E i \in 1..Len(results) : IsInvalidTickerError(results[i])
  THEN Throw(InvalidTickersFoundMessage(UniqueBadTickers(results)))
  ELSE IF \E i \in 1..Len(results) : results[i].type \in {"null", "error"}
  THEN Return(HistoryData(FallbackHistory(tks, rng, results), TRUE, NoNames))
  ELSE IF Len(results) = 0
  THEN Throw(TYPE_ERROR)   \* validResults[0] is undefined
  ELSE LET sortedCommonDates == SortAscending(CommonDates(results, Len(results)))
       IN IF TooFewCommonDates(Len(sortedCommonDates))
          THEN Return(HistoryData(generateMockHistory(tks, rng), TRUE, NoNames))
          ELSE Return(HistoryData(
                 [i \in 1..Len(tks) |->
                    RealRow(tks[i], AssetReturns(results[i], sortedCommonDates, 1, -1))],
                 FALSE,
                 NameMap(tks, results)))

-----------------------------------------------------------------------------
(* runSimulation: data acquisition *)

NoHistory == HistoryData(<<>>, FALSE, NoNames)

Undefined == [defined |-> FALSE, nReturns |-> 0, weights |-> <<>>]

\* a plausible slip: prices.length >= 10
EnoughBenchPrices_Inclusive(n) == n >= BenchMinPrices

\* prices.length > 10
EnoughBenchPrices(n) == n > BenchMinPrices

\* the try block around the benchmark fetch: awaiting a rejected promise throws.  The
\* statistics of a usable series are computed from its nReturns returns; their values
\* are not modelled.
BenchmarkTry(b) ==
  IF b.state = "rejected" THEN Throw(b.value.message)
  ELSE IF b.value.type # "data" THEN Return(Undefined)
  ELSE IF EnoughBenchPrices(Len(b.value.prices))
       THEN Return([defined |-> TRUE, nReturns |-> Len(b.value.prices) - 1, weights |-> <<>>])
       ELSE Return(Undefined)

\* a plausible slip: no catch around the benchmark fetch
BenchmarkStats_NoCatch(b) == BenchmarkTry(b)

\* the try/catch around the benchmark fetch: the catch only logs
BenchmarkStats(b) ==
  LET r == BenchmarkTry(b)
  IN IF r.threw THEN Return(Undefined) ELSE r

NoResult == [kind |-> "none"]
RejectedResult(e) == [kind |-> "rejected", message |-> e.message]

\* the OptimizationResult.  Its statistics (correlationMatrix, efficientFrontier, the
\* three portfolios, riskContribution) are functions of `history`, which stands for them.
ResolvedResult(tks, h, bm) ==
  [kind |-> "resolved", assets |-> tks, history |-> h.history,
   isSimulation |-> h.isSimulation, benchmarkPortfolio |-> bm, assetNames |-> h.names]

\* whether runSimulation's catch re-throws the error of getHistory
Propagates(message) ==
  message # <<>> /\ (StartsWith(message, INVALID_TICKER)
                     \/ StartsWith(message, INVALID_TICKERS_FOUND))

-----------------------------------------------------------------------------
(* runSimulation: statistics and the Monte-Carlo sampling *)

RiskFreeRate == Fin(1, 50)
VaRFactor == Fin(329, 200)

\* the return series the statistics are run on, in units of 1/4200 (which keeps the
\* annualized numbers small): a falling and a rising series, a constant one, one
\* whose annualized mean is the risk-free rate, and that of a price that never moves
ReturnRows == { <<1, 0, -1>>, <<-1, 0, 1>>, <<1, 1, 1>>, <<1, 0, 0>>, <<0, 0, 0>> }
AssetCounts == {1, 2}

Histories ==
  UNION {[1..n -> {[i \in 1..Len(r) |-> Fin(r[i], 4200)] : r \in ReturnRows}] :
           n \in AssetCounts}

calculateMean(data) == NumDiv(NumSum(data), Int2Num(Len(data)))

\* a plausible slip: the population covariance, with divisor n
calculateCovariance_DivisorN(dataA, dataB, meanA, meanB) ==
  LET n == Len(dataA)
      terms == [i \in 1..n |->
                  IF i > Len(dataB) THEN NaN
                  ELSE NumMul(NumSub(dataA[i], meanA), NumSub(dataB[i], meanB))]
  IN NumDiv(NumSum(terms), Int2Num(n))

\* dataB[i] is undefined beyond the end of dataB, and the term NaN
calculateCovariance(dataA, dataB, meanA, meanB) ==
  LET n == Len(dataA)
      terms == [i \in 1..n |->
                  IF i > Len(dataB) THEN NaN
                  ELSE NumMul(NumSub(dataA[i], meanA), NumSub(dataB[i], meanB))]
  IN NumDiv(NumSum(terms), Int2Num(n - 1))

DailyMeans(h) == [i \in 1..Len(h) |-> calculateMean(h[i])]

AnnualizedReturns(h) ==
  [i \in 1..Len(h) |-> NumMul(DailyMeans(h)[i], Int2Num(TradingDays))]

CovMatrix(h) ==
  [i \in 1..Len(h) |-> [j \in 1..Len(h) |->
     NumMul(calculateCovariance(h[i], h[j], DailyMeans(h)[i], DailyMeans(h)[j]),
            Int2Num(TradingDays))]]

\* the draws of one trial: draws[i] / RandLevels is the i-th Math.random()
DrawSets(n) == [1..n -> 0..(RandLevels - 1)]

\* the weights of a trial: the draws divided by their sum
RandomWeights(draws) ==
  LET raw == [i \in 1..Len(draws) |-> Fin(draws[i], RandLevels)]
      totalWeight == NumSum(raw)
  IN [i \in 1..Len(raw) |-> NumDiv(raw[i], totalWeight)]

PortfolioReturn(weights, rets) ==
  NumSum([i \in 1..Len(weights) |-> NumMul(weights[i], rets[i])])

\* the double loop over i and j, in its order
PortfolioVariance(weights, cov) ==
  LET n == Len(weights)
  IN NumSum([k \in 1..(n * n) |->
               LET i == ((k - 1) \div n) + 1
                   j == ((k - 1) % n) + 1
               IN NumMul(NumMul(weights[i], weights[j]), cov[i][j])])

\* the PortfolioStats of a trial
TrialStats(weights, rets, cov) ==
  LET pReturn == PortfolioReturn(weights, rets)
      pRisk == Sqrt(PortfolioVariance(weights, cov))
  IN [return |-> pReturn,
      risk |-> pRisk,
      sharpe |-> DivBySurd(NumSub(pReturn, RiskFreeRate), pRisk),
      weights |-> weights,
      var95 |-> Scaled(VaRFactor, pRisk)]

Sentinel == [return |-> NegInf, risk |-> PosInf, sharpe |-> NegInf, weights |-> <<>>]

\* the weights a user gives the assets (a.weight), and userAssets.map(a => a.weight)
UserWeightValues == {0, 1, 3}
UserWeights(n) == [1..n -> UserWeightValues]

\* a plausible slip: the weights are divided by their total without the test
CurrentWeights_NoGuard(uw) ==
  LET totalUserWeight == NumSum([i \in 1..Len(uw) |-> Int2Num(uw[i])])
  IN [i \in 1..Len(uw) |-> NumDiv(Int2Num(uw[i]), totalUserWeight)]

\* Normalize user weights
CurrentWeights(uw) ==
  LET totalUserWeight == NumSum([i \in 1..Len(uw) |-> Int2Num(uw[i])])
  IN [i \in 1..Len(uw) |->
        IF NumGt(totalUserWeight, Zero) THEN NumDiv(Int2Num(uw[i]), totalUserWeight)
        ELSE Zero]

\* a plausible slip: the guard asks for both deviations to be 0
CorMatrix_GuardBoth(cov) ==
  [i \in 1..Len(cov) |-> [j \in 1..Len(cov) |->
     LET stdDevI == Sqrt(cov[i][i])
         stdDevJ == Sqrt(cov[j][j])
     IN IF SurdIsZero(stdDevI) /\ SurdIsZero(stdDevJ) THEN SurdOfInt(0)
        ELSE DivBySurdProduct(cov[i][j], stdDevI, stdDevJ)]]

\* the correlation loop over i and j
CorMatrix(cov) ==
  [i \in 1..Len(cov) |-> [j \in 1..Len(cov) |->
     LET stdDevI == Sqrt(cov[i][i])
         stdDevJ == Sqrt(cov[j][j])
     IN IF SurdIsZero(stdDevI) \/ SurdIsZero(stdDevJ) THEN SurdOfInt(0)
        ELSE DivBySurdProduct(cov[i][j], stdDevI, stdDevJ)]]

\* 4. Current Portfolio (User defined weights)
CurrentStats(currentWeights, rets, cov) ==
  LET curRet == PortfolioReturn(currentWeights, rets)
      curVar == PortfolioVariance(currentWeights, cov)
      curRisk == Sqrt(curVar)
  IN [return |-> curRet,
      risk |-> curRisk,
      sharpe |-> DivBySurd(NumSub(curRet, RiskFreeRate), curRisk),
      weights |-> currentWeights,
      var95 |-> Scaled(VaRFactor, curRisk)]

\* a plausible slip: the inner loop weighs with asset i's own weight
MarginalContribution_OwnWeight(currentWeights, cov, i) ==
  NumSum([j \in 1..Len(currentWeights) |-> NumMul(currentWeights[i], cov[i][j])])

\* mrc_numerator of asset i
MarginalContribution(currentWeights, cov, i) ==
  NumSum([j \in 1..Len(currentWeights) |-> NumMul(currentWeights[j], cov[i][j])])

\* a plausible slip: the contributions are computed without the test of totalVol
RiskContribution_NoGuard(currentWeights, cov, curVar) ==
  [i \in 1..Len(currentWeights) |->
     LET mrc_numerator == MarginalContribution(currentWeights, cov, i)
         totalVol == Sqrt(curVar)
     IN DivBySurdTwice(NumMul(currentWeights[i], mrc_numerator), totalVol)]

\* 5. Calculate Risk Contributions: rc is divided by totalVol when it is computed and
\* once more when it is stored, both under totalVol > 0
RiskContribution(currentWeights, cov, curVar) ==
  [i \in 1..Len(currentWeights) |->
     LET mrc_numerator == MarginalContribution(currentWeights, cov, i)
         totalVol == Sqrt(curVar)
     IN IF SurdGt(totalVol, SurdOfInt(0))
        THEN DivBySurdTwice(NumMul(currentWeights[i], mrc_numerator), totalVol)
        ELSE Zero]

SamplingIdle ==
  /\ history = <<>>
  /\ annualizedReturns = <<>>
  /\ covMatrix = <<>>
  /\ trial = 0
  /\ frontier = <<>>
  /\ minVarP = Sentinel
  /\ maxSharpeP = Sentinel
  /\ spc = "idle"
  /\ userWeights = <<>>
  /\ corMatrix = <<>>
  /\ currentStats = Null
  /\ riskContribution = <<>>

MockIdle ==
  /\ mockTicker = <<>>
  /\ mockDraws = <<0, 0>>
  /\ mockParams = Null

AppIdle ==
  /\ assets = <<>>
  /\ timeRange = "1y"
  /\ loading = FALSE
  /\ appError = "none"
  /\ appResult = Null
  /\ calls = <<>>

Init ==
  /\ tickers \in UNION {[1..n -> TickerUniverse] : n \in 0..MaxTickers}
  /\ range \in TimeRanges
  /\ pc = "start"
  /\ promises = <<>>
  /\ fetchLog = <<>>
  /\ firstSettled = 0
  /\ answers = [i \in 1..Len(tickers) |-> Null]
  /\ histPromise = Pending
  /\ historyData = NoHistory
  /\ bench = [state |-> "idle", value |-> Null]
  /\ result = NoResult
  /\ SamplingIdle
  /\ AppIdle
  /\ MockIdle

\* a plausible slip: the benchmark fetch is started with the ticker fetches
RunSimulationStart_WithBenchmark ==
  /\ pc = "start"
  /\ pc' = "awaitHistory"
  /\ promises' = [i \in 1..Len(tickers) |-> Pending]
  /\ fetchLog' = [i \in 1..Len(tickers) |-> "pending"]
  /\ bench' = Pending
  /\ UNCHANGED <<answers, tickers, range, firstSettled, histPromise, historyData, result>>
  /\ UNCHANGED <<sampleVars, appVars, mockVars>>

\* runSimulation up to `await getHistory(...)`; getHistory up to `await Promise.all(...)`:
\* one fetch per ticker is started
RunSimulationStart ==
  /\ pc = "start"
  /\ pc' = "awaitHistory"
  /\ promises' = [i \in 1..Len(tickers) |-> Pending]
  /\ fetchLog' = [i \in 1..Len(tickers) |-> "pending"]
  /\ UNCHANGED <<answers, tickers, range, firstSettled, histPromise, historyData, bench, result>>
  /\ UNCHANGED <<sampleVars, appVars, mockVars>>

\* the fetch of ticker i settles with answer resp
\* a plausible slip: the results are collected in the order the fetches complete
FetchSettles_CompletionOrder(i, resp) ==
  /\ pc = "awaitHistory"
  /\ fetchLog[i] = "pending"
  /\ LET slot == CHOOSE k \in 1..Len(promises) :
                   /\ promises[k].state = "pending"
                   /\ \A j \in 1..(k - 1) : promises[j].state # "pending"
     IN promises' = [promises EXCEPT ![slot] = WrapFetch(FetchTickerData(tickers[i], resp))]
  /\ fetchLog' = [fetchLog EXCEPT ![i] = RespClass(resp)]
  /\ firstSettled' = IF firstSettled = 0 THEN i ELSE firstSettled
  /\ answers' = [answers EXCEPT ![i] =
                    IF FetchTickerData(tickers[i], resp).value.type = "data" THEN resp
                    ELSE Null]
  /\ UNCHANGED <<tickers, range, pc, histPromise, historyData, bench, result>>
  /\ UNCHANGED <<sampleVars, appVars, mockVars>>

FetchSettles(i, resp) ==
  /\ pc = "awaitHistory"
  /\ promises[i].state = "pending"
  /\ promises' = [promises EXCEPT ![i] = WrapFetch(FetchTickerData(tickers[i], resp))]
  /\ fetchLog' = [fetchLog EXCEPT ![i] = RespClass(resp)]
  /\ firstSettled' = IF firstSettled = 0 THEN i ELSE firstSettled
  /\ answers' = [answers EXCEPT ![i] =
                    IF FetchTickerData(tickers[i], resp).value.type = "data" THEN resp
                    ELSE Null]
  /\ UNCHANGED <<tickers, range, pc, histPromise, historyData, bench, result>>
  /\ UNCHANGED <<sampleVars, appVars, mockVars>>

\* Promise.all settles and getHistory runs to its end
GetHistoryResume ==
  /\ pc = "awaitHistory"
  /\ histPromise.state = "pending"
  /\ PromiseAllState(promises) # "pending"
  /\ histPromise' =
       IF PromiseAllState(promises) = "rejected"
       THEN Rejected((CHOOSE p \in SetOfSeq(promises) : p.state = "rejected").value)
       ELSE LET r == GetHistoryBody(tickers, range,
                                    [i \in 1..Len(promises) |-> promises[i].value])
            IN IF r.threw THEN Rejected(ErrorValue(r.message)) ELSE Fulfilled(r.value)
  /\ UNCHANGED <<answers, tickers, range, pc, promises, fetchLog, firstSettled, historyData,
                 bench, result>>
  /\ UNCHANGED <<sampleVars, appVars, mockVars>>

\* runSimulation after `await getHistory(...)`: re-throw, or take the data (the mock
\* fallback for an unexpected error) and start the benchmark fetch
RunSimulationAfterHistory ==
  /\ pc = "awaitHistory"
  /\ histPromise.state # "pending"
  /\ IF histPromise.state = "rejected" /\ Propagates(histPromise.value.message)
     THEN /\ pc' = "rejected"
          /\ result' = RejectedResult(histPromise.value)
          /\ UNCHANGED <<historyData, bench>>
     ELSE /\ pc' = "awaitBenchmark"
          /\ historyData' =
               IF histPromise.state = "rejected"
               THEN HistoryData(generateMockHistory(tickers, range), TRUE, NoNames)
               ELSE histPromise.value
          /\ bench' = Pending
          /\ UNCHANGED result
  /\ promises' = <<>>
  /\ answers' = [i \in 1..Len(tickers) |-> Null]
  /\ UNCHANGED <<tickers, range, fetchLog, firstSettled, histPromise>>
  /\ UNCHANGED <<sampleVars, appVars, mockVars>>

\* the benchmark fetch settles with answer resp
BenchSettles(resp) ==
  /\ bench.state = "pending"
  /\ bench' = FetchTickerData(GSPC, resp)
  /\ UNCHANGED <<answers, tickers, range, pc, promises, fetchLog, firstSettled, histPromise,
                 historyData, result>>
  /\ UNCHANGED <<sampleVars, appVars, mockVars>>

\* runSimulation after `await fetchTickerData('^GSPC', range)` to its return
RunSimulationFinish ==
  /\ pc = "awaitBenchmark"
  /\ bench.state \in {"fulfilled", "rejected"}
  /\ LET bm == BenchmarkStats(bench)
     IN IF bm.threw
        THEN /\ pc' = "rejected"
             /\ result' = [kind |-> "rejected", message |-> bm.message]
        ELSE /\ pc' = "resolved"
             /\ result' = ResolvedResult(tickers, historyData, bm.value)
  /\ UNCHANGED <<answers, tickers, range, promises, fetchLog, firstSettled, histPromise,
                 historyData, bench>>
  /\ UNCHANGED <<sampleVars, appVars, mockVars>>

Next ==
  \/ RunSimulationStart
  \/ \E i \in 1..Len(tickers) : \E resp \in TickerResponses : FetchSettles(i, resp)
  \/ GetHistoryResume
  \/ RunSimulationAfterHistory
  \/ \E resp \in BenchResponses : BenchSettles(resp)
  \/ RunSimulationFinish

Spec == Init /\ [][Next]_vars

-----------------------------------------------------------------------------
(* getHistory over answers that all carry a usable series *)

ReturnsInit ==
  /\ Init
  /\ range = "1y"
  /\ \A i \in 1..Len(tickers) : tickers[i] = <<"A", "B">>

ReturnsNext ==
  \/ RunSimulationStart
  \/ \E i \in 1..Len(tickers) : \E resp \in PriceResponses : FetchSettles(i, resp)
  \/ GetHistoryResume
  \/ RunSimulationAfterHistory

ReturnsSpec == ReturnsInit /\ [][ReturnsNext]_vars

-----------------------------------------------------------------------------
(* The synchronous part of runSimulation, from a returns matrix on *)

FetchDone ==
  /\ tickers = <<>>
  /\ pc = "statistics"
  /\ promises = <<>>
  /\ fetchLog = <<>>
  /\ firstSettled = 0
  /\ answers = [i \in 1..Len(tickers) |-> Null]
  /\ histPromise = Pending
  /\ historyData = NoHistory
  /\ bench = [state |-> "idle", value |-> Null]
  /\ result = NoResult
  /\ AppIdle
  /\ MockIdle

SampleInit ==
  /\ FetchDone
  /\ range = "1y"
  /\ history \in Histories
  /\ annualizedReturns = <<>>
  /\ covMatrix = <<>>
  /\ trial = 0
  /\ frontier = <<>>
  /\ minVarP = Sentinel
  /\ maxSharpeP = Sentinel
  /\ spc = "statistics"
  /\ userWeights \in UserWeights(Len(history))
  /\ corMatrix = <<>>
  /\ currentStats = Null
  /\ riskContribution = <<>>

\* 2. Calculate Statistics: the means and the covariance matrix, and the start of 3.
CalculateStatistics ==
  /\ spc = "statistics"
  /\ annualizedReturns' = AnnualizedReturns(history)
  /\ covMatrix' = CovMatrix(history)
  /\ corMatrix' = CorMatrix(covMatrix')
  /\ spc' = "sampling"
  /\ UNCHANGED <<history, trial, frontier, minVarP, maxSharpeP, userWeights,
                 currentStats, riskContribution>>
  /\ UNCHANGED <<fetchVars, appVars, mockVars>>

\* a plausible slip: a sample whose Sharpe ratio is not finite is not pushed
SampleTrial_DropsNonFinite(draws) ==
  /\ spc = "sampling"
  /\ trial < MaxTrials
  /\ LET stats == TrialStats(RandomWeights(draws), annualizedReturns, covMatrix)
     IN /\ frontier' = IF stats.sharpe.k = "surd" THEN Append(frontier, stats)
                        ELSE frontier
        /\ minVarP' = IF SurdLt(stats.risk, minVarP.risk) THEN stats ELSE minVarP
        /\ maxSharpeP' = IF SurdGt(stats.sharpe, maxSharpeP.sharpe) THEN stats
                         ELSE maxSharpeP
  /\ trial' = trial + 1
  /\ UNCHANGED <<history, annualizedReturns, covMatrix, spc, userWeights, corMatrix,
                 currentStats, riskContribution>>
  /\ UNCHANGED <<fetchVars, appVars, mockVars>>

\* a plausible slip: <= and >= in the two comparisons, so that a tie replaces the holder
SampleTrial_TiesReplace(draws) ==
  /\ spc = "sampling"
  /\ trial < MaxTrials
  /\ LET stats == TrialStats(RandomWeights(draws), annualizedReturns, covMatrix)
     IN /\ frontier' = Append(frontier, stats)
        /\ minVarP' = IF SurdLe(stats.risk, minVarP.risk) THEN stats ELSE minVarP
        /\ maxSharpeP' = IF SurdGe(stats.sharpe, maxSharpeP.sharpe) THEN stats
                         ELSE maxSharpeP
  /\ trial' = trial + 1
  /\ UNCHANGED <<history, annualizedReturns, covMatrix, spc, userWeights, corMatrix,
                 currentStats, riskContribution>>
  /\ UNCHANGED <<fetchVars, appVars, mockVars>>

\* one pass of the sampling loop, with the draws of its Math.random() calls
SampleTrial(draws) ==
  /\ spc = "sampling"
  /\ trial < MaxTrials
  /\ LET stats == TrialStats(RandomWeights(draws), annualizedReturns, covMatrix)
     IN /\ frontier' = Append(frontier, stats)
        /\ minVarP' = IF SurdLt(stats.risk, minVarP.risk) THEN stats ELSE minVarP
        /\ maxSharpeP' = IF SurdGt(stats.sharpe, maxSharpeP.sharpe) THEN stats
                         ELSE maxSharpeP
  /\ trial' = trial + 1
  /\ UNCHANGED <<history, annualizedReturns, covMatrix, spc, userWeights, corMatrix,
                 currentStats, riskContribution>>
  /\ UNCHANGED <<fetchVars, appVars, mockVars>>

\* the loop ends; 4. the current portfolio and 5. the risk contributions, up to the
\* return
SamplingEnds ==
  /\ spc = "sampling"
  /\ ~(trial < MaxTrials)
  /\ LET currentWeights == CurrentWeights(userWeights)
     IN /\ currentStats' = CurrentStats(currentWeights, annualizedReturns, covMatrix)
        /\ riskContribution' =
             RiskContribution(currentWeights, covMatrix,
                              PortfolioVariance(currentWeights, covMatrix))
  /\ spc' = "done"
  /\ UNCHANGED <<history, annualizedReturns, covMatrix, trial, frontier, minVarP,
                 maxSharpeP, userWeights, corMatrix>>
  /\ UNCHANGED <<fetchVars, appVars, mockVars>>

SampleNext ==
  \/ CalculateStatistics
  \/ \E draws \in DrawSets(Len(history)) : SampleTrial(draws)
  \/ SamplingEnds

SampleSpec == SampleInit /\ [][SampleNext]_vars

\* where the synchronous part of runSimulation moves on: from the statistics into the
\* loop, from one trial to the next, and out of the loop after the last trial
LoopProgress ==
  \/ spc = "statistics" /\ spc' = "sampling" /\ trial' = trial
  \/ spc = "sampling" /\ trial < MaxTrials /\ spc' = spc /\ trial' = trial + 1
  \/ spc = "sampling" /\ ~(trial < MaxTrials) /\ spc' = "done" /\ trial' = trial

\* runSimulation after its awaits is synchronous code: it is not suspended, so a step
\* that can be taken is taken
SampleFairSpec == SampleSpec /\ WF_<<spc, trial>>(LoopProgress)

-----------------------------------------------------------------------------
(* The statistics alone, as a function of the returns matrix *)

\* a row one return short of the others, as getHistory builds it from a series with a
\* price <= 0 (the return after that price is skipped)
ShortRow == <<1, -1>>

\* the daily returns A = [0.01, -0.02, 0.015, 0.005] and B = [0.02, -0.01, 0.01, 0.0]
ScenarioA == <<42, -84, 63, 21>>
ScenarioB == <<84, -42, 42, 0>>

StatRows == ReturnRows \cup {ShortRow, ScenarioA, ScenarioB}

StatHistories ==
  UNION {[1..n -> {[i \in 1..Len(r) |-> Fin(r[i], 4200)] : r \in StatRows}] :
           n \in AssetCounts}

StatisticsInit ==
  /\ FetchDone
  /\ range \in TimeRanges
  /\ history \in StatHistories
  /\ annualizedReturns = <<>>
  /\ covMatrix = <<>>
  /\ trial = 0
  /\ frontier = <<>>
  /\ minVarP = Sentinel
  /\ maxSharpeP = Sentinel
  /\ spc = "statistics"
  /\ userWeights = [i \in 1..Len(history) |-> 1]
  /\ corMatrix = <<>>
  /\ currentStats = Null
  /\ riskContribution = <<>>

StatisticsNext == CalculateStatistics

StatisticsSpec == StatisticsInit /\ [][StatisticsNext]_vars

-----------------------------------------------------------------------------
(* The calling layer: App.tsx.  handleOptimize runs synchronously up to its
   await of runSimulation; the part after the await runs when the call
   settles.  A call is recorded with the assets and the time range its
   closure captured. *)

\* the most runSimulation calls one behaviour starts
MaxCalls == 3

LowerLetters == <<"a", "b", "c", "d">>
UpperLetters == <<"A", "B", "C", "D">>

\* String.prototype.toUpperCase over the letters of the model
UpperChar(c) ==
  IF \E k \in 1..Len(LowerLetters) : LowerLetters[k] = c
  THEN UpperLetters[CHOOSE k \in 1..Len(LowerLetters) : LowerLetters[k] = c]
  ELSE c

ToUpperCase(s) == [k \in 1..Len(s) |-> UpperChar(s[k])]

Asset(t, w) == [ticker |-> t, weight |-> w]

\* the asset lists the user can have on screen (typed, or loaded from storage)
AssetLists ==
  { <<Asset(<<"A", "B">>, 50), Asset(<<"C", "D">>, 50)>>,
    <<Asset(<<"a", "b">>, 50), Asset(<<" ", "A", "B">>, 50)>>,
    <<Asset(<<"A", "B">>, 100)>>,
    <<Asset(<<"A", "B">>, 50), Asset(<<" ">>, 50)>>,
    <<Asset(<<"A", "B">>, 50), Asset(<<"C", "D">>, 30)>> }

\* a plausible slip: the tickers are compared as typed
TickerList_AsTyped(as) == [k \in 1..Len(as) |-> as[k].ticker]

\* handleOptimize: tickerList
TickerList(as) == [k \in 1..Len(as) |-> ToUpperCase(Trim(as[k].ticker))]

\* handleOptimize: uniqueTickers.size !== tickerList.length
HasDuplicates(list) == Cardinality({list[k] : k \in 1..Len(list)}) # Len(list)

\* handleOptimize: validAssets
ValidAssets(as) == SelectSeq(as, LAMBDA a : Len(Trim(a.ticker)) > 0)

RECURSIVE TotalWeight(_)
TotalWeight(as) ==
  IF as = <<>> THEN 0 ELSE as[1].weight + TotalWeight(Tail(as))

\* Math.abs(totalWeight - 100) > 0.1
WeightOff(as) ==
  LET d == TotalWeight(as) - 100 IN (IF d < 0 THEN -d ELSE d) * 10 > 1

\* the message handleOptimize sets before its await, "none" if it reaches the await
Validate(as) ==
  IF Len(as) < 2 THEN "count"
  ELSE IF Len(ValidAssets(as)) # Len(as) THEN "empty"
  ELSE IF HasDuplicates(TickerList(ValidAssets(as))) THEN "duplicate"
  ELSE IF WeightOff(ValidAssets(as)) THEN "weight"
  ELSE "none"

\* handleOptimize up to its first await, in the closure of assets `as` and range r
HandleOptimize(as, r) ==
  IF Validate(as) = "none"
  THEN /\ Len(calls) < MaxCalls
       /\ loading' = TRUE
       /\ appError' = "none"
       /\ calls' = Append(calls, [state |-> "awaiting", assets |-> ValidAssets(as),
                                  range |-> r])
       /\ UNCHANGED appResult
  ELSE /\ loading' = FALSE
       /\ appError' = Validate(as)
       /\ UNCHANGED <<appResult, calls>>

AppInit ==
  /\ tickers = <<>>
  /\ range = "1y"
  /\ pc = "start"
  /\ promises = <<>>
  /\ fetchLog = <<>>
  /\ firstSettled = 0
  /\ answers = [i \in 1..Len(tickers) |-> Null]
  /\ histPromise = Pending
  /\ historyData = NoHistory
  /\ bench = [state |-> "idle", value |-> Null]
  /\ result = NoResult
  /\ SamplingIdle
  /\ MockIdle
  /\ assets \in AssetLists
  /\ timeRange \in TimeRanges
  /\ loading = FALSE
  /\ appError = "none"
  /\ appResult = Null
  /\ calls = <<>>

\* the optimize button: onClick={handleOptimize} disabled={loading}
ClickOptimize ==
  /\ ~loading
  /\ HandleOptimize(assets, timeRange)
  /\ UNCHANGED <<assets, timeRange>>
  /\ UNCHANGED <<fetchVars, sampleVars, mockVars>>

\* a range button, never disabled, and the effect on [timeRange]
SelectTimeRange(r) ==
  /\ r # timeRange
  /\ timeRange' = r
  /\ IF appResult # Null
     THEN HandleOptimize(assets, r)
     ELSE UNCHANGED <<loading, appError, appResult, calls>>
  /\ UNCHANGED assets
  /\ UNCHANGED <<fetchVars, sampleVars, mockVars>>

\* AssetManager: onChange={setAssets}
EditAssets(as) ==
  /\ as # assets
  /\ assets' = as
  /\ UNCHANGED <<timeRange, loading, appError, appResult, calls>>
  /\ UNCHANGED <<fetchVars, sampleVars, mockVars>>

\* the awaited runSimulation call c resolves: the rest of the try block, then finally
SimulationResolves(c) ==
  /\ calls[c].state = "awaiting"
  /\ calls' = [calls EXCEPT ![c].state = "resolved"]
  /\ assets' = calls[c].assets
  /\ appResult' = [call |-> c, assets |-> calls[c].assets, range |-> calls[c].range]
  /\ loading' = FALSE
  /\ UNCHANGED <<timeRange, appError>>
  /\ UNCHANGED <<fetchVars, sampleVars, mockVars>>

\* the awaited runSimulation call c rejects: the catch block, then finally
SimulationRejects(c) ==
  /\ calls[c].state = "awaiting"
  /\ calls' = [calls EXCEPT ![c].state = "rejected"]
  /\ appError' = "invalidTickers"
  /\ loading' = FALSE
  /\ UNCHANGED <<assets, timeRange, appResult>>
  /\ UNCHANGED <<fetchVars, sampleVars, mockVars>>

AppNext ==
  \/ ClickOptimize
  \/ \E r \in TimeRanges : SelectTimeRange(r)
  \/ \E as \in AssetLists : EditAssets(as)
  \/ \E c \in 1..Len(calls) : SimulationResolves(c)
  \/ \E c \in 1..Len(calls) : SimulationRejects(c)

AppSpec == AppInit /\ [][AppNext]_vars

-----------------------------------------------------------------------------
(* generateMockHistory: the parameters derived for one ticker *)

\* the letters of the tickers the generator is run on, and char.charCodeAt(0)
MockLetters == <<"A", "B", "C", "D", "E", "F", "G", "H", "I", "J">>
CharCodeBase == 64
CharCodeAt(c) == CharCodeBase + (CHOOSE k \in 1..Len(MockLetters) : MockLetters[k] = c)

\* the longest ticker the generator is run on
MaxMockLen == 2

MockTickers == UNION {[1..n -> SetOfSeq(MockLetters)] : n \in 0..MaxMockLen}

\* ticker.split('').reduce((acc, char) => acc + char.charCodeAt(0), 0)
RECURSIVE Seed(_)
Seed(ticker) ==
  IF ticker = <<>> THEN 0
  ELSE Seed(SubSeq(ticker, 1, Len(ticker) - 1)) + CharCodeAt(ticker[Len(ticker)])

RandomVolBase(seed) == Fin(seed % 20, 1000)

\* seed, volatility, beta and alpha of a ticker; draws[k] / RandLevels is what the k-th
\* Math.random() yields
MockParameters(ticker, draws) ==
  LET seed == Seed(ticker)
      randomVolBase == RandomVolBase(seed)
  IN [seed |-> seed,
      volatility |-> NumAdd(NumAdd(Fin(1, 100), randomVolBase),
                            NumMul(Fin(draws[1], RandLevels), Fin(1, 100))),
      beta |-> NumAdd(Fin(1, 2), Fin(seed % 10, 10)),
      alpha |-> NumMul(NumSub(Fin(draws[2], RandLevels), Fin(1, 2)), Fin(1, 1000))]

MockInit ==
  /\ tickers = <<>>
  /\ range = "1y"
  /\ pc = "start"
  /\ promises = <<>>
  /\ fetchLog = <<>>
  /\ firstSettled = 0
  /\ answers = <<>>
  /\ histPromise = Pending
  /\ historyData = NoHistory
  /\ bench = [state |-> "idle", value |-> Null]
  /\ result = NoResult
  /\ SamplingIdle
  /\ AppIdle
  /\ mockTicker \in MockTickers
  /\ mockDraws \in [1..2 -> 0..(RandLevels - 1)]
  /\ mockParams = Null

\* the head of the forEach callback, up to the loop over the days
DeriveMockParameters ==
  /\ mockParams = Null
  /\ mockParams' = MockParameters(mockTicker, mockDraws)
  /\ UNCHANGED <<mockTicker, mockDraws>>
  /\ UNCHANGED <<fetchVars, sampleVars, appVars>>

MockNext == DeriveMockParameters

MockSpec == MockInit /\ [][MockNext]_vars

-----------------------------------------------------------------------------
(* Properties of the sampling *)

One == Int2Num(1)

\* C9: every sampled portfolio has one weight per asset, each weight >= 0, and the
\* weights sum to 1.
C9_WeightsNormalized ==
  \A t \in 1..Len(frontier) :
    /\ Len(frontier[t].weights) = Len(history)
    /\ \A i \in 1..Len(history) : NumGe(frontier[t].weights[i], Zero)
    /\ NumEq(NumSum(frontier[t].weights), One)

\* C10: after each trial, minVarP.risk <= p.risk for every p sampled so far.
C10_MinVarIsMinimum ==
  \A t \in 1..Len(frontier) : SurdLe(minVarP.risk, frontier[t].risk)


\* C11: in every result of runSimulation, minVarPortfolio.risk <= currentPortfolio.risk.
C11_MinVarNoRiskierThanCurrent ==
  spc = "done" => SurdLe(minVarP.risk, currentStats.risk)

\* C12: after each trial, maxSharpeP.sharpe >= p.sharpe for every p sampled so far.
C12_MaxSharpeIsMaximum ==
  \A t \in 1..Len(frontier) : SurdGe(maxSharpeP.sharpe, frontier[t].sharpe)

\* the sample of the step just taken
NewSample == frontier'[Len(frontier')]

\* no sample before the i-th has the risk (the Sharpe ratio) of the i-th
FirstWithRisk(i) == \A j \in 1..(i - 1) : ~SurdEq(frontier[j].risk, frontier[i].risk)
FirstWithSharpe(i) == \A j \in 1..(i - 1) : ~SurdEq(frontier[j].sharpe, frontier[i].sharpe)

C23_WitnessSharpe ==
  /\ Len(frontier) = 2
  /\ frontier[1].weights # frontier[2].weights
  /\ SurdEq(frontier[1].sharpe, frontier[2].sharpe)
  /\ maxSharpeP = frontier[1]

\* C25: the sampling loop terminates, after exactly MaxTrials trials (numPortfolios in
\* the code); each trial appends exactly one PortfolioStats to the frontier, behind
\* those of the earlier trials, whatever its risk and Sharpe ratio are; the loop ends
\* only after the last trial.
C25_LoopRunsAllTrials ==
  /\ [](/\ Len(frontier) = trial
        /\ trial <= MaxTrials
        /\ \A k \in 1..Len(frontier) : Len(frontier[k].weights) = Len(history)
        /\ spc = "done" => Len(frontier) = MaxTrials)
  /\ [][/\ trial' # trial => trial' = trial + 1 /\ frontier' = Append(frontier, NewSample)
        /\ frontier' # frontier => trial' = trial + 1]_vars
  /\ <>(spc = "done" /\ Len(frontier) = MaxTrials)

\* the loop has ended with a sample of zero risk and a sample whose Sharpe ratio is
\* not finite on the frontier
C25_Witness ==
  /\ spc = "done"
  /\ Len(frontier) = MaxTrials
  /\ \E k \in 1..Len(frontier) : SurdIsZero(frontier[k].risk)
  /\ \E k \in 1..Len(frontier) : frontier[k].sharpe.k # "surd"

-----------------------------------------------------------------------------
(* Properties of the evaluated current portfolio *)

Evaluated == spc = "done"
PositiveRisk == SurdGt(currentStats.risk, SurdOfInt(0))

\* C13: for a current portfolio of non-zero (positive) risk, the riskContribution
\* fractions sum to 1, and sum_i w_i * (sum_j w_j * cov[i][j]) is the portfolio
\* variance, the square of currentPortfolio.risk.
C13_RiskContributionsSumToOne ==
  (Evaluated /\ PositiveRisk) =>
    LET w == currentStats.weights
    IN /\ NumEq(NumSum(riskContribution), One)
       /\ NumEq(NumSum([i \in 1..Len(w) |->
                          NumMul(w[i], NumSum([j \in 1..Len(w) |->
                                                 NumMul(w[j], covMatrix[i][j])]))]),
                currentStats.risk.q)

C13_Witness ==
  /\ Evaluated /\ PositiveRisk
  /\ userWeights = <<1, 3>>
  /\ covMatrix[1][2] # Zero
  /\ riskContribution[1] # riskContribution[2]

\* C14: a current portfolio of risk exactly 0 has sharpe 0 and var95 0, and the
\* Sharpe ratio of the current portfolio is always finite.
C14_ZeroRiskSharpeIsZero ==
  Evaluated =>
    /\ SurdIsZero(currentStats.risk) =>
         /\ SurdEq(currentStats.sharpe, SurdOfInt(0))
         /\ SurdEq(currentStats.var95, SurdOfInt(0))
    /\ currentStats.sharpe.k \notin {"nan", "inf"}

\* C18: riskContribution has one entry per asset, and when the risk of the current
\* portfolio is 0 every entry is 0.
C18_ZeroRiskContributionsZero ==
  Evaluated =>
    /\ Len(riskContribution) = Len(history)
    /\ SurdIsZero(currentStats.risk) =>
         \A i \in 1..Len(history) : riskContribution[i] = Zero

C18_Witness ==
  /\ Evaluated
  /\ SurdIsZero(currentStats.risk)
  /\ userWeights = <<1, 1>>
  /\ covMatrix[1][1] # Zero
  /\ riskContribution = <<Zero, Zero>>

C18_WitnessNoWeights ==
  /\ Evaluated
  /\ userWeights = <<0, 0>>
  /\ riskContribution = <<Zero, Zero>>

\* the total of the raw user weights
RECURSIVE SumInts(_)
SumInts(xs) == IF xs = <<>> THEN 0 ELSE xs[1] + SumInts(Tail(xs))

\* C21 as stated: the weights of currentPortfolio sum to 1 for every list of user
\* assets, a list whose raw weights total 0 included.
C21_CurrentWeightsSumToOne ==
  Evaluated => NumEq(NumSum(currentStats.weights), One)

\* C21 amended: currentPortfolio has one weight per asset; when the raw weights total
\* more than 0 each is the raw weight over the total and they sum to 1, and when the
\* total is 0 every weight is 0.
C21_CurrentWeightsNormalized ==
  Evaluated =>
    /\ Len(currentStats.weights) = Len(userWeights)
    /\ IF SumInts(userWeights) > 0
       THEN /\ NumEq(NumSum(currentStats.weights), One)
            /\ \A i \in 1..Len(userWeights) :
                 NumMul(currentStats.weights[i], Int2Num(SumInts(userWeights)))
                   = Int2Num(userWeights[i])
       ELSE \A i \in 1..Len(userWeights) : currentStats.weights[i] = Zero

C21_Witness ==
  /\ Evaluated
  /\ userWeights = <<1, 3>>
  /\ currentStats.weights = <<Fin(1, 4), Fin(3, 4)>>

C21_WitnessNoWeights ==
  /\ Evaluated
  /\ userWeights = <<0, 0>>
  /\ currentStats.weights = <<Zero, Zero>>

\* C27: after the sampling loop minVarPortfolio and maxSharpePortfolio are each an
\* element of efficientFrontier, with one weight per asset, and never the sentinel the
\* loop starts with.
C27_HoldersAreSamples ==
  Evaluated =>
    /\ \E k \in 1..Len(frontier) : frontier[k] = minVarP
    /\ \E k \in 1..Len(frontier) : frontier[k] = maxSharpeP
    /\ Len(minVarP.weights) = Len(history)
    /\ Len(maxSharpeP.weights) = Len(history)
    /\ minVarP # Sentinel
    /\ maxSharpeP # Sentinel

-----------------------------------------------------------------------------
(* Properties of the statistics *)

Computed == spc # "statistics"
nAssets == Len(history)
Assets == 1..nAssets
SquareMatrix(mat) == Len(mat) = nAssets /\ \A i \in Assets : Len(mat[i]) = nAssets
Rectangular == \A i, j \in Assets : Len(history[i]) = Len(history[j])

\* C15: the covariance and the correlation matrix are nAssets x nAssets and symmetric:
\* covMatrix[i][j] == covMatrix[j][i] and correlationMatrix[i][j] ==
\* correlationMatrix[j][i] for all i, j.
C15_MatricesSquareSymmetric ==
  Computed =>
    /\ SquareMatrix(covMatrix)
    /\ SquareMatrix(corMatrix)
    /\ \A i, j \in Assets :
         /\ NumEq(covMatrix[i][j], covMatrix[j][i])
         /\ SurdEq(corMatrix[i][j], corMatrix[j][i])

\* C16: correlationMatrix[i][i] == 1 for every asset i of non-zero estimated
\* volatility, and every entry of the correlation matrix lies in [-1, 1].
C16_CorrelationDiagonalAndRange ==
  Computed =>
    /\ \A i \in Assets :
         ~SurdIsZero(Sqrt(covMatrix[i][i])) => SurdEq(corMatrix[i][i], SurdOfInt(1))
    /\ \A i, j \in Assets :
         /\ SurdGe(corMatrix[i][j], SurdOfInt(-1))
         /\ SurdLe(corMatrix[i][j], SurdOfInt(1))

\* cov[i][i] = 0: the estimated standard deviation of asset i is 0
ZeroDeviation(i) == NumEq(covMatrix[i][i], Zero)

\* e is c / (sqrt(vi) * sqrt(vj)) for finite c and finite vi, vj > 0: it has the sign
\* of c and e^2 * vi = c * (c / vj)
IsQuotient(e, c, vi, vj) ==
  /\ e.k = "surd"
  /\ e.s = Sign(c)
  /\ NumMul(e.q, vi) = NumMul(c, NumDiv(c, vj))

\* C17: correlationMatrix[i][j] is 0 whenever the estimated standard deviation of
\* asset i or of asset j is 0, the diagonal entry of a zero-variance asset included;
\* otherwise it is cov[i][j] / (stdev[i] * stdev[j]) (NaN where cov[i][j] is), and no
\* entry is the outcome of a division by zero.
C17_CorrelationZeroGuard ==
  Computed =>
    \A i, j \in Assets :
      /\ IF ZeroDeviation(i) \/ ZeroDeviation(j)
         THEN corMatrix[i][j] = SurdOfInt(0)
         ELSE IF covMatrix[i][j].k = "nan"
         THEN corMatrix[i][j] = NaN
         ELSE IsQuotient(corMatrix[i][j], covMatrix[i][j],
                         covMatrix[i][i], covMatrix[j][j])
      /\ corMatrix[i][j].k # "inf"

C17_Witness ==
  /\ Computed
  /\ nAssets = 2
  /\ ZeroDeviation(1) /\ ~ZeroDeviation(2)
  /\ corMatrix[1][1] = SurdOfInt(0)
  /\ corMatrix[1][2] = SurdOfInt(0)
  /\ corMatrix[2][2] = SurdOfInt(1)

C17_WitnessQuotient ==
  /\ Computed
  /\ nAssets = 2
  /\ ~ZeroDeviation(1) /\ ~ZeroDeviation(2)
  /\ corMatrix[1][2].k = "surd" /\ corMatrix[1][2].s = -1 /\ corMatrix[1][2].q # One

\* the sum of the products of the deviations of two rows of one length from their
\* arithmetic means
DeviationProducts(a, b) ==
  LET meanOf(r) == NumDiv(NumSum(r), Int2Num(Len(r)))
  IN NumSum([t \in 1..Len(a) |->
               NumMul(NumSub(a[t], meanOf(a)), NumSub(b[t], meanOf(b)))])

ScenarioHistory ==
  <<[t \in 1..4 |-> Fin(ScenarioA[t], 4200)], [t \in 1..4 |-> Fin(ScenarioB[t], 4200)]>>

\* C19: whatever the TimeRange, annualizedReturns[i] is 252 times the arithmetic mean
\* of row i (annualizedReturns[i] * n = 252 * sum) and covMatrix[i][j] is 252 times
\* the sample covariance with divisor n - 1 (covMatrix[i][j] * (n - 1) = 252 * the sum
\* of the deviation products) for rows of n returns; for A = [0.01, -0.02, 0.015,
\* 0.005] and B = [0.02, -0.01, 0.01, 0.0] the means are 0.0025 and 0.005, the daily
\* covariance is 0.0005 / 3 and the annualized covariance 0.042.
C19_AnnualizedMeanAndCovariance ==
  Computed =>
    /\ Len(annualizedReturns) = nAssets
    /\ \A i \in Assets :
         NumMul(annualizedReturns[i], Int2Num(Len(history[i])))
           = NumMul(Int2Num(252), NumSum(history[i]))
    /\ \A i, j \in Assets :
         Len(history[i]) = Len(history[j]) =>
           NumMul(covMatrix[i][j], Int2Num(Len(history[i]) - 1))
             = NumMul(Int2Num(252), DeviationProducts(history[i], history[j]))
    /\ history = ScenarioHistory =>
         /\ annualizedReturns = <<NumMul(Int2Num(252), Fin(25, 10000)),
                                  NumMul(Int2Num(252), Fin(5, 1000))>>
         /\ covMatrix[1][2] = NumMul(Int2Num(252), NumDiv(Fin(5, 10000), Int2Num(3)))
         /\ covMatrix[1][2] = Fin(42, 1000)

C19_Witness ==
  /\ Computed
  /\ history = ScenarioHistory
  /\ range = "5y"
  /\ covMatrix[2][1] = Fin(42, 1000)

C19_WitnessOneYear ==
  /\ Computed
  /\ history = ScenarioHistory
  /\ range = "1y"
  /\ covMatrix[2][1] = Fin(42, 1000)

-----------------------------------------------------------------------------
(* Properties of the calling layer *)

\* two tickers are equal case-insensitively after trimming
SameTicker(a, b) == ToUpperCase(Trim(a)) = ToUpperCase(Trim(b))

DuplicateTickers(as) ==
  \E j, k \in 1..Len(as) : j # k /\ SameTicker(as[j].ticker, as[k].ticker)

\* a step in which handleOptimize is invoked, by the button or by the effect
HandleOptimizeInvoked ==
  \/ ClickOptimize
  \/ appResult # Null /\ \E r \in TimeRanges : SelectTimeRange(r)

\* C22: handleOptimize never calls runSimulation with two tickers that are equal
\* case-insensitively after trimming; invoked on such assets it sets an error
\* message, leaves the previous result unchanged and resets loading to false.
C22_DuplicateTickersRejected ==
  /\ [](\A c \in 1..Len(calls) : ~DuplicateTickers(calls[c].assets))
  /\ [][(HandleOptimizeInvoked /\ DuplicateTickers(assets))
          => /\ appError' # "none"
             /\ appResult' = appResult
             /\ loading' = FALSE
             /\ calls' = calls]_vars

\* duplicate tickers were rejected while an earlier result stays on display
C22_Witness ==
  /\ DuplicateTickers(assets)
  /\ appError = "duplicate"
  /\ appResult # Null
  /\ ~loading

\* a handleOptimize invocation is in flight: it awaits its runSimulation call
InFlight(c) == calls[c].state = "awaiting"

NoneInFlight == \A c \in 1..Len(calls) : ~InFlight(c)

\* C29: once no optimization is in flight, the displayed result is that of the
\* latest-started request that resolved (no result of an earlier-started request has
\* overwritten it); if that request was made for the selected time range, the result
\* on display is one for the selected time range.
C29_LatestResultDisplayed ==
  (NoneInFlight /\ appResult # Null) =>
    /\ \A c \in 1..Len(calls) : calls[c].state = "resolved" => c <= appResult.call
    /\ (calls[Len(calls)].state = "resolved" /\ calls[Len(calls)].range = timeRange)
         => appResult.range = timeRange

\* C30: loading is true exactly while a handleOptimize invocation is in flight.
C30_LoadingWhileInFlight ==
  loading <=> \E c \in 1..Len(calls) : InFlight(c)

-----------------------------------------------------------------------------
(* Properties of the synthetic generator *)

\* C26: for every ticker the generator's beta lies in [0.5, 1.5] and its volatility in
\* [0.01, 0.03].
C26_MockParameterRanges ==
  mockParams # Null =>
    /\ NumLe(Fin(1, 2), mockParams.beta) /\ NumLe(mockParams.beta, Fin(3, 2))
    /\ NumLe(Fin(1, 100), mockParams.volatility)
    /\ NumLe(mockParams.volatility, Fin(3, 100))

-----------------------------------------------------------------------------
(* Properties of the data acquisition *)

Settled(i) == fetchLog[i] # "pending"
SomeFetch(class) == \E i \in 1..Len(fetchLog) : fetchLog[i] = class
HistoryTaken == pc \in {"awaitBenchmark", "resolved", "rejected"}
AllMock(h, tks, rng) ==
  /\ Len(h) = Len(tks)
  /\ \A i \in 1..Len(h) :
       h[i].source = "mock" /\ h[i].ticker = tks[i] /\ h[i].len = RANGE_DAYS_MAP[rng]
AllReal(h, tks) ==
  /\ Len(h) = Len(tks)
  /\ \A i \in 1..Len(h) : h[i].source = "real" /\ h[i].ticker = tks[i]

\* C1: once getHistory has settled, a symbol-not-found fetch among the tickers means
\* that getHistory rejected with INVALID_TICKERS_FOUND, and once runSimulation has
\* gone on, that it rejected with that error, took no history (no synthetic data) and
\* started nothing else, whatever the other fetches did.
C1_InvalidTickerAborts ==
  SomeFetch("symbolNotFound") =>
    /\ histPromise.state # "pending" =>
         /\ histPromise.state = "rejected"
         /\ StartsWith(histPromise.value.message, INVALID_TICKERS_FOUND)
    /\ HistoryTaken =>
         /\ pc = "rejected"
         /\ result.kind = "rejected"
         /\ StartsWith(result.message, INVALID_TICKERS_FOUND)
         /\ historyData = NoHistory
         /\ bench.state = "idle"

C1_Witness ==
  /\ pc = "rejected"
  /\ SomeFetch("symbolNotFound") /\ SomeFetch("transient")

C1_WitnessWithSuccess ==
  /\ pc = "rejected"
  /\ SomeFetch("symbolNotFound") /\ SomeFetch("ok")

\* the tickers whose fetch was symbol-not-found, in input order, each once
OffendingTickers ==
  LET idx == SelectSeq([i \in 1..Len(tickers) |-> i],
                       LAMBDA i : fetchLog[i] = "symbolNotFound")
  IN Unique([k \in 1..Len(idx) |-> tickers[idx[k]]])

\* C2: the INVALID_TICKERS_FOUND error lists exactly the input tickers whose fetch was
\* symbol-not-found, each once and under its input identifier.
C2_ErrorNamesOffendingTickers ==
  pc = "rejected" => result.message = InvalidTickersFoundMessage(OffendingTickers)

\* C3: with no symbol-not-found fetch and at least one transient failure, the history
\* is synthetic for every ticker of the request and isSimulation is true, in what
\* getHistory returns, in what runSimulation takes and in the result.
C3_TransientFailureAllSynthetic ==
  (~SomeFetch("symbolNotFound") /\ SomeFetch("transient")) =>
    /\ histPromise.state # "pending" =>
         /\ histPromise.state = "fulfilled"
         /\ histPromise.value.isSimulation
         /\ AllMock(histPromise.value.history, tickers, range)
    /\ HistoryTaken =>
         /\ historyData.isSimulation
         /\ AllMock(historyData.history, tickers, range)
    /\ pc = "resolved" =>
         /\ result.isSimulation
         /\ AllMock(result.history, tickers, range)

C3_Witness ==
  /\ pc = "resolved"
  /\ ~SomeFetch("symbolNotFound") /\ SomeFetch("transient") /\ SomeFetch("ok")

\* C4: runSimulation rejects only when a ticker fetch was symbol-not-found; in every
\* other case, whatever the benchmark fetch did, a finished run resolved.
C4_RejectsOnlyOnInvalidSymbol ==
  /\ (pc = "rejected") <=> (result.kind = "rejected")
  /\ (pc = "resolved") <=> (result.kind = "resolved")
  /\ result.kind = "rejected" => SomeFetch("symbolNotFound")
  /\ (HistoryTaken /\ ~SomeFetch("symbolNotFound")) => pc \in {"awaitBenchmark", "resolved"}

C4_Witness ==
  /\ pc = "resolved"
  /\ bench.state = "rejected"
  /\ StartsWith(bench.value.message, INVALID_TICKER)
  /\ SomeFetch("transient")

C4_WitnessUnexpectedError ==
  /\ pc = "resolved"
  /\ histPromise.state = "rejected"
  /\ result.isSimulation

\* the dates common to all fetched series, while getHistory's results are alive
FetchedCommonDates ==
  {d \in SetOfSeq(promises[1].value.dates) :
     \A i \in 1..Len(promises) : d \in SetOfSeq(promises[i].value.dates)}

AllFetchesOk ==
  /\ Len(promises) = Len(tickers)
  /\ Len(tickers) >= 1
  /\ \A i \in 1..Len(tickers) : fetchLog[i] = "ok"

\* C5: when all ticker fetches succeeded, getHistory returns a fully synthetic history
\* with isSimulation = true if fewer than 50 dates are common to all series, and the
\* real returns with isSimulation = false if 50 or more are.
C5_CommonDatesThreshold ==
  (AllFetchesOk /\ histPromise.state # "pending") =>
    /\ histPromise.state = "fulfilled"
    /\ IF Cardinality(FetchedCommonDates) < 50
       THEN /\ histPromise.value.isSimulation
            /\ AllMock(histPromise.value.history, tickers, range)
       ELSE /\ ~histPromise.value.isSimulation
            /\ AllReal(histPromise.value.history, tickers)

C5_Witness ==
  /\ AllFetchesOk /\ histPromise.state = "fulfilled"
  /\ Len(tickers) >= 2
  /\ \A i \in 1..Len(tickers) : Cardinality(SetOfSeq(promises[i].value.dates)) >= 50
  /\ Cardinality(FetchedCommonDates) = 49
  /\ histPromise.value.isSimulation

C5_WitnessReal ==
  /\ AllFetchesOk /\ histPromise.state = "fulfilled"
  /\ Len(tickers) >= 2
  /\ Cardinality(FetchedCommonDates) = 50
  /\ ~histPromise.value.isSimulation

\* how getHistory classified the batch
Classification ==
  IF histPromise.state = "rejected"
  THEN (IF StartsWith(histPromise.value.message, INVALID_TICKERS_FOUND)
        THEN "abort" ELSE "error")
  ELSE IF histPromise.value.isSimulation THEN "synthetic" ELSE "real"

\* C6: getHistory classifies the batch only when every ticker fetch has settled, and
\* the classification is decided by the outcomes alone: abort if any is
\* symbol-not-found, else synthetic if any is transient, else real or synthetic.
C6_ClassifiedAfterAllSettled ==
  histPromise.state # "pending" =>
    /\ \A i \in 1..Len(tickers) : Settled(i)
    /\ Classification \in
         IF SomeFetch("symbolNotFound") THEN {"abort"}
         ELSE IF SomeFetch("transient") THEN {"synthetic"}
         ELSE IF Len(tickers) = 0 THEN {"error"}
         ELSE {"real", "synthetic"}

C6_Witness ==
  /\ Len(tickers) >= 2
  /\ histPromise.state # "pending"
  /\ firstSettled = 2
  /\ fetchLog[2] = "symbolNotFound"
  /\ fetchLog[1] = "ok"
  /\ Classification = "abort"

C6_WitnessNullFirst ==
  /\ Len(tickers) >= 2
  /\ histPromise.state # "pending"
  /\ firstSettled = 2
  /\ fetchLog[2] = "transient"
  /\ fetchLog[1] = "symbolNotFound"
  /\ Classification = "abort"

\* C7 as stated: the benchmark fetch is started with the ticker fetches, before any
\* of them has settled.
C7_BenchmarkStartedWithTickers ==
  (\E i \in 1..Len(fetchLog) : Settled(i)) => bench.state # "idle"

\* C7 as amended: the benchmark fetch is started only after getHistory has settled
\* (every ticker fetch settled, the batch classified), and not at all when
\* runSimulation re-throws the invalid-symbol error.
C7_BenchmarkAfterClassification ==
  bench.state # "idle" =>
    /\ histPromise.state # "pending"
    /\ \A i \in 1..Len(tickers) : Settled(i)
    /\ Classification # "abort"
    /\ pc \in {"awaitBenchmark", "resolved"}

C7_Witness ==
  /\ bench.state = "pending"
  /\ Len(tickers) >= 2
  /\ \A i \in 1..Len(tickers) : Settled(i)

BenchmarkUnusable ==
  \/ bench.state = "rejected"
  \/ bench.state = "fulfilled" /\ bench.value.type = "null"
  \/ bench.state = "fulfilled" /\ bench.value.type = "data" /\ Len(bench.value.prices) <= 10

\* C8: a run whose benchmark fetch failed or gave 10 or fewer prices resolves, with
\* benchmarkPortfolio undefined and every other field as the history taken before the
\* benchmark fetch decides it.
C8_BenchmarkFailureNotFatal ==
  (BenchmarkUnusable /\ pc \in {"resolved", "rejected"}) =>
    /\ pc = "resolved"
    /\ result.kind = "resolved"
    /\ result.benchmarkPortfolio = Undefined
    /\ result.isSimulation = historyData.isSimulation
    /\ result.history = historyData.history
    /\ result.assetNames = historyData.names
    /\ result.assets = tickers

C8_Witness ==
  /\ pc = "resolved"
  /\ bench.state = "fulfilled" /\ bench.value.type = "data"
  /\ Len(bench.value.prices) = 10
  /\ ~result.isSimulation

C8_WitnessRejected ==
  /\ pc = "resolved"
  /\ bench.state = "rejected"
  /\ ~result.isSimulation

\* the price of fetched series i on a date
FetchedPrice(i, date) == PriceMapGet(promises[i].value, date)

RealHistoryBuilt ==
  /\ AllFetchesOk
  /\ histPromise.state = "fulfilled"
  /\ ~histPromise.value.isSimulation

\* C20: on the real-data path the return series of every asset has (number of common
\* dates - 1) elements, the k-th being (p[t_k+1] - p[t_k]) / p[t_k] over the
\* ascending common dates t_1 < t_2 < ..., whatever the prices are.
C20_ReturnsOverCommonDates ==
  RealHistoryBuilt =>
    LET sorted == SortAscending(FetchedCommonDates)
    IN \A i \in 1..Len(tickers) :
         LET rets == histPromise.value.history[i].rets
         IN /\ Len(rets) = Len(sorted) - 1
            /\ \A k \in 1..(Len(sorted) - 1) :
                 rets[k] = NumDiv(Int2Num(FetchedPrice(i, sorted[k + 1])
                                            - FetchedPrice(i, sorted[k])),
                                  Int2Num(FetchedPrice(i, sorted[k])))

\* C28: all rows of a returns matrix that getHistory hands on have the same length,
\* and on the real-data path the k-th element of every row is the return between the
\* k-th and the (k+1)-th common date.
C28_RowsAligned ==
  (pc = "awaitHistory" /\ histPromise.state = "fulfilled")
    => LET rows == histPromise.value.history
       IN /\ \A i, j \in 1..Len(rows) : rows[i].len = rows[j].len
          /\ RealHistoryBuilt =>
               LET sorted == SortAscending(FetchedCommonDates)
               IN \A i \in 1..Len(rows) : \A k \in 1..Len(rows[i].rets) :
                    /\ k < Len(sorted)
                    /\ rows[i].rets[k] =
                         NumDiv(Int2Num(FetchedPrice(i, sorted[k + 1])
                                          - FetchedPrice(i, sorted[k])),
                                Int2Num(FetchedPrice(i, sorted[k])))

\* the result of the fetch of the i-th ticker, from the answer that fetch received
FetchResultOf(i) == FetchTickerData(tickers[i], answers[i]).value

AnsweredCommonDates ==
  {d \in SetOfSeq(FetchResultOf(1).dates) :
     \A i \in 1..Len(tickers) : d \in SetOfSeq(FetchResultOf(i).dates)}

\* C24: whatever the order in which the concurrent fetches complete, the i-th result
\* of Promise.all is the answer to the i-th ticker's fetch, the i-th row of the
\* returns matrix is computed from that answer and carries the i-th ticker, and the
\* assets of the result are the input tickers in their order.
C24_RowsFollowInputOrder ==
  /\ \A i \in 1..Len(promises) :
       promises[i].state = "fulfilled" /\ promises[i].value.type = "data"
         => /\ answers[i] # Null
            /\ promises[i].value = FetchResultOf(i)
  /\ (pc = "awaitHistory" /\ histPromise.state = "fulfilled")
       => /\ Len(histPromise.value.history) = Len(tickers)
          /\ \A i \in 1..Len(tickers) :
               /\ histPromise.value.history[i].ticker = tickers[i]
               /\ ~histPromise.value.isSimulation
                    => histPromise.value.history[i].rets =
                         AssetReturns(FetchResultOf(i),
                                      SortAscending(AnsweredCommonDates), 1, -1)
  /\ historyData # NoHistory
       => /\ Len(historyData.history) = Len(tickers)
          /\ \A i \in 1..Len(tickers) : historyData.history[i].ticker = tickers[i]
  /\ result.kind = "resolved"
       => /\ result.assets = tickers
          /\ Len(result.history) = Len(tickers)
          /\ \A i \in 1..Len(tickers) : result.history[i].ticker = tickers[i]

\* the fetch of the second ticker completed first, the answers differ, and the real
\* returns matrix has been built
C24_Witness ==
  /\ RealHistoryBuilt
  /\ Len(tickers) = 2
  /\ firstSettled = 2
  /\ answers[1] # answers[2]
  /\ histPromise.value.history[1].rets # histPromise.value.history[2].rets
====
